---------------------------- MODULE Spec2Model ----------------------------
(***************************************************************************)
(* A model of enpassreadercli (src/enpassreadercli/enpassreadercli.py):    *)
(* one run of main(), from the command line and the environment to the     *)
(* exit status.  The external collaborators (argparse, the Enpass database *)
(* library, prompt_toolkit) appear through the calls the script makes on   *)
(* them.                                                                   *)
(*                                                                         *)
(* An optional Python value is a sequence: <<>> is None / unset / unbound, *)
(* <<v>> is the value v.                                                   *)
(***************************************************************************)
EXTENDS Integers, Sequences, FiniteSets, TLC

VARIABLES
    env,            \* os.environ, restricted to the three ENPASS_* variables
    cli,            \* sys.argv, as the options present on the command line
    args,           \* the argparse namespace, <<>> before parsing
    pc,             \* position of main()
    log_file,       \* what setup_logging found behind --log-config
    open_result,    \* "none", "ok" or "EnpassDatabaseError"
    db,             \* enpass.entries, in the order the database yields them
    opened_with,    \* the (path, password, key_file) given to EnpassDB
    entry_title,    \* the local variable entry_title, <<>> while unbound
    prompts,        \* number of calls of prompt()
    completer,      \* the completer handed to prompt()
    prompt_result,  \* "none", "submitted" or "KeyboardInterrupt"
    lookups,        \* number of calls of enpass.get_entry
    entry,          \* the local variable entry: what get_entry returned
    stdout,         \* the lines printed with print()
    logged,         \* the messages given to LOGGER.error
    exit_code,      \* <<>> while running, <<n>> once the process has ended
    uncaught        \* the exception that ended the run with a traceback, or ""

vars == <<env, cli, args, pc, log_file, open_result, db, opened_with,
          entry_title, prompts, completer, prompt_result, lookups, entry,
          stdout, logged, exit_code, uncaught>>

None == <<>>
Some(v) == <<v>>

(***************************************************************************)
(* Bounds of the model.                                                    *)
(***************************************************************************)
MaxEntries == 2

EnvVars == {"ENPASS_DB_PATH", "ENPASS_DB_PASSWORD", "ENPASS_DB_KEY_FILE"}
EnvValues == {None, Some(""), Some("env")}
CliValues == {None, Some(""), Some("cli")}
LogConfigValues == {None, Some("log.json")}
GetValues == {None, Some(""), Some("a"), Some("b")}
ModeFlags == {"enumerate", "search", "fuzzy"}
\* The file behind --log-config: a usable configuration, text json.loads
\* refuses, JSON that dictConfig refuses with a ValueError, or no file.
LogFileKinds == {"valid", "invalid_json", "invalid_config", "missing"}

\* The entries a database may hold: an empty title, and one title held twice.
Entries == {[title |-> "", password |-> "x"],
            [title |-> "a", password |-> "y"],
            [title |-> "a", password |-> "z"]}
Databases == UNION {[1..n -> Entries] : n \in 0..MaxEntries}
\* What the user may type at the prompt.
TypedTitles == {"", "a", "b"}

(***************************************************************************)
(* Python truthiness of an optional string: None and '' are false.         *)
(***************************************************************************)
Truthy(v) == v # None /\ v[1] # ""

(***************************************************************************)
(* DefaultVariable.__init__: the default and the required flag the action  *)
(* ends with.                                                              *)
(***************************************************************************)
\* The slip "if default and variable": the environment is never consulted
\* for an option without a default.
DefaultVariable_inverted(variable, required, default) ==
    LET d == IF Truthy(default) /\ variable # None /\ env[variable[1]] # None
             THEN env[variable[1]]
             ELSE default
        r == IF required /\ Truthy(d) THEN FALSE ELSE required
    IN  [default |-> d, required |-> r]

DefaultVariable(variable, required, default) ==
    LET d == IF ~Truthy(default) /\ variable # None /\ env[variable[1]] # None
             THEN env[variable[1]]
             ELSE default
        r == IF required /\ Truthy(d) THEN FALSE ELSE required
    IN  [default |-> d, required |-> r]

\* The three add_argument calls that use DefaultVariable.
PathAction == DefaultVariable(Some("ENPASS_DB_PATH"), TRUE, None)
PasswordAction == DefaultVariable(Some("ENPASS_DB_PASSWORD"), TRUE, None)
KeyFileAction == DefaultVariable(Some("ENPASS_DB_KEY_FILE"), FALSE, Some(""))

\* DefaultVariable.__call__ stores the given value; an absent option keeps
\* the action's default.
Parsed(action, given) == IF given # None THEN given ELSE action.default

\* argparse: a required option that is absent is an error.
MissingRequired(action, given) == action.required /\ given = None

\* The options of the mutually exclusive group present on the command line.
ModesPresent == cli.flags \cup (IF cli.get # None THEN {"get"} ELSE {})

\* A group that is required but not mutually exclusive.
GroupError_required_only == Cardinality(ModesPresent) = 0

\* add_mutually_exclusive_group(required=True): two members conflict, and
\* none at all is an error.
GroupError == Cardinality(ModesPresent) # 1

ParseError ==
    \/ MissingRequired(PathAction, cli.path)
    \/ MissingRequired(PasswordAction, cli.password)
    \/ MissingRequired(KeyFileAction, cli.key_file)
    \/ GroupError

Namespace ==
    [logger_config |-> IF cli.logger_config # None THEN cli.logger_config[1] ELSE "",
     path     |-> Parsed(PathAction, cli.path),
     password |-> Parsed(PasswordAction, cli.password),
     key_file |-> Parsed(KeyFileAction, cli.key_file),
     entry    |-> cli.get,
     list     |-> "enumerate" \in cli.flags,
     search   |-> "search" \in cli.flags,
     fuzzy    |-> "fuzzy" \in cli.flags]

(***************************************************************************)
(* Output formatting and messages.                                         *)
(***************************************************************************)
EntryLine(e) == e.title \o ": " \o e.password
NotValidJson(config_file) ==
    "File \"" \o config_file \o "\" is not valid json, cannot continue."
CouldNotRead ==
    "Could not read or decrypt the database. "
    \o "Please validate that the path provided is a valid enpass database, "
    \o "and that the provided password and optionally key file are correct."
NotFound(title) == "No password entry found with title of \"" \o title \o "\"."
\* Printing the entry the way the enumeration does.
PasswordLine_with_title(e) == e.title \o ": " \o e.password
\* print(entry.password)
PasswordLine(e) == e.password

(***************************************************************************)
(* enpass.get_entry(title): the first entry holding that title, or None.   *)
(***************************************************************************)
get_entry(entries, title) ==
    LET hits == {i \in 1..Len(entries) : entries[i].title = title}
    IN  IF hits = {} THEN None
        ELSE Some(entries[CHOOSE i \in hits : \A j \in hits : i <= j])

(***************************************************************************)
(* How a run ends.                                                         *)
(***************************************************************************)
SystemExit(code) ==
    /\ pc' = "exited"
    /\ exit_code' = Some(code)
    /\ uncaught' = ""

\* An exception nobody catches: traceback on stderr, exit status 1.
Uncaught(exception) ==
    /\ pc' = "exited"
    /\ exit_code' = Some(1)
    /\ uncaught' = exception

Continue(next) ==
    /\ pc' = next
    /\ UNCHANGED <<exit_code, uncaught>>

(***************************************************************************)
(* The except clauses of setup_logging and main.                           *)
(***************************************************************************)
\* The message is printed and the run goes on.
except_ValueError_continues ==
    /\ stdout' = Append(stdout, NotValidJson(args[1].logger_config))
    /\ Continue("open")

except_ValueError ==
    /\ stdout' = Append(stdout, NotValidJson(args[1].logger_config))
    /\ SystemExit(1)

\* The error is logged and the run goes on.
except_EnpassDatabaseError_continues ==
    /\ logged' = Append(logged, CouldNotRead)
    /\ Continue("list")

except_EnpassDatabaseError ==
    /\ logged' = Append(logged, CouldNotRead)
    /\ SystemExit(1)

\* The interrupt is swallowed and the run goes on.
except_KeyboardInterrupt_pass == Continue("lookup")

except_KeyboardInterrupt == SystemExit(0)

Init ==
    /\ env \in [EnvVars -> EnvValues]
    /\ cli \in [path : CliValues, password : CliValues, key_file : CliValues,
                logger_config : LogConfigValues,
                get : GetValues, flags : SUBSET ModeFlags]
    /\ args = None
    /\ pc = "get_arguments"
    /\ log_file = "none"
    /\ open_result = "none"
    /\ db = <<>>
    /\ opened_with = None
    /\ entry_title = None
    /\ prompts = 0
    /\ completer = "none"
    /\ prompt_result = "none"
    /\ lookups = 0
    /\ entry = None
    /\ stdout = <<>>
    /\ logged = <<>>
    /\ exit_code = None
    /\ uncaught = ""

(***************************************************************************)
(* args = get_arguments(): parser.error ends the run with status 2.        *)
(***************************************************************************)
get_arguments ==
    /\ pc = "get_arguments"
    /\ IF ParseError
       THEN /\ SystemExit(2)
            /\ UNCHANGED args
       ELSE /\ args' = Some(Namespace)
            /\ Continue("setup_logging")
    /\ UNCHANGED <<env, cli, log_file, open_result, db, opened_with,
                   entry_title, prompts, completer, prompt_result, lookups,
                   entry, stdout, logged>>

(***************************************************************************)
(* setup_logging(args.log_level, args.logger_config)                       *)
(***************************************************************************)
setup_logging ==
    /\ pc = "setup_logging"
    /\ IF args[1].logger_config # ""
       THEN \E kind \in LogFileKinds :
              /\ log_file' = kind
              /\ CASE kind = "valid" ->
                        /\ Continue("open")
                        /\ UNCHANGED stdout
                   [] kind \in {"invalid_json", "invalid_config"} ->
                        except_ValueError
                   [] kind = "missing" ->
                        /\ Uncaught("FileNotFoundError")
                        /\ UNCHANGED stdout
       ELSE /\ log_file' = "coloredlogs"
            /\ Continue("open")
            /\ UNCHANGED stdout
    /\ UNCHANGED <<env, cli, args, open_result, db, opened_with, entry_title,
                   prompts, completer, prompt_result, lookups, entry, logged>>

(***************************************************************************)
(* enpass = EnpassDB(args.path, args.password, args.key_file), with the    *)
(* except EnpassDatabaseError clause.                                      *)
(***************************************************************************)
open_database ==
    /\ pc = "open"
    /\ opened_with' = Some(<<args[1].path, args[1].password, args[1].key_file>>)
    /\ \/ \E entries \in Databases :
            /\ open_result' = "ok"
            /\ db' = entries
            /\ Continue("list")
            /\ UNCHANGED logged
       \/ /\ open_result' = "EnpassDatabaseError"
          /\ except_EnpassDatabaseError
          /\ UNCHANGED db
    /\ UNCHANGED <<env, cli, args, log_file, entry_title, prompts, completer,
                   prompt_result, lookups, entry, stdout>>

(***************************************************************************)
(* if args.list: for entry in enpass.entries: print(...); raise SystemExit *)
(* The raise is in the body of the loop.                                   *)
(***************************************************************************)
enumerate ==
    /\ pc = "list"
    /\ IF args[1].list /\ Len(db) > 0
       THEN /\ stdout' = Append(stdout, EntryLine(db[1]))
            /\ SystemExit(0)
       ELSE /\ Continue("title")
            /\ UNCHANGED stdout
    /\ UNCHANGED <<env, cli, args, log_file, open_result, db, opened_with,
                   entry_title, prompts, completer, prompt_result, lookups,
                   entry, logged>>

(***************************************************************************)
(* if args.entry: ... elif args.search or args.fuzzy: ... prompt(...)      *)
(***************************************************************************)
select_title ==
    /\ pc = "title"
    /\ IF Truthy(args[1].entry)
       THEN /\ entry_title' = args[1].entry
            /\ Continue("lookup")
            /\ UNCHANGED <<prompts, completer, prompt_result>>
       ELSE IF args[1].search \/ args[1].fuzzy
       THEN /\ prompts' = prompts + 1
            /\ completer' = IF args[1].search THEN "EnpassCompleter"
                            ELSE "FuzzyCompleter(EnpassCompleter)"
            /\ \/ \E typed \in TypedTitles :
                    /\ prompt_result' = "submitted"
                    /\ entry_title' = Some(typed)
                    /\ Continue("lookup")
               \/ /\ prompt_result' = "KeyboardInterrupt"
                  /\ except_KeyboardInterrupt
                  /\ UNCHANGED entry_title
       ELSE /\ Continue("lookup")
            /\ UNCHANGED <<entry_title, prompts, completer, prompt_result>>
    /\ UNCHANGED <<env, cli, args, log_file, open_result, db, opened_with,
                   lookups, entry, stdout, logged>>

(***************************************************************************)
(* entry = enpass.get_entry(entry_title) and what follows it.              *)
(***************************************************************************)
lookup ==
    /\ pc = "lookup"
    /\ IF entry_title = None
       THEN /\ Uncaught("UnboundLocalError")
            /\ UNCHANGED <<lookups, entry, stdout, logged>>
       ELSE /\ lookups' = lookups + 1
            /\ entry' = get_entry(db, entry_title[1])
            /\ IF entry' = None
               THEN /\ logged' = Append(logged, NotFound(entry_title[1]))
                    /\ SystemExit(1)
                    /\ UNCHANGED stdout
               ELSE /\ stdout' = Append(stdout, PasswordLine(entry'[1]))
                    /\ SystemExit(0)
                    /\ UNCHANGED logged
    /\ UNCHANGED <<env, cli, args, log_file, open_result, db, opened_with,
                   entry_title, prompts, completer, prompt_result>>

Next ==
    \/ get_arguments
    \/ setup_logging
    \/ open_database
    \/ enumerate
    \/ select_title
    \/ lookup

Spec == Init /\ [][Next]_vars

(***************************************************************************)
(* What main() does from its line 203 on when run with --get title on an   *)
(* opened database: the output, the logged errors and the way it ends.     *)
(***************************************************************************)
DirectGet(entries, title) ==
    IF ~Truthy(Some(title))
    THEN [stdout |-> <<>>, logged |-> <<>>, exit_code |-> Some(1),
          uncaught |-> "UnboundLocalError"]
    ELSE LET found == get_entry(entries, title) IN
         IF found = None
         THEN [stdout |-> <<>>, logged |-> <<NotFound(title)>>,
               exit_code |-> Some(1), uncaught |-> ""]
         ELSE [stdout |-> <<PasswordLine(found[1])>>, logged |-> <<>>,
               exit_code |-> Some(0), uncaught |-> ""]

\* What the run has shown of itself.
Observed ==
    [stdout |-> stdout, logged |-> logged, exit_code |-> exit_code,
     uncaught |-> uncaught]

\* DirectGet is what the actions do in a --get run.
DirectGetIsTheRun ==
    (pc = "exited" /\ open_result = "ok" /\ cli.get # None)
        => Observed = DirectGet(db, cli.get[1])

(***************************************************************************)
(* Vocabulary of the properties.                                           *)
(***************************************************************************)
Parsing == pc = "get_arguments"
Exited == pc = "exited"
ExitedWith(code) == Exited /\ exit_code = Some(code) /\ uncaught = ""
Opened == open_result = "ok"
\* The positions of the entries holding a title.
Holding(title) == {i \in 1..Len(db) : db[i].title = title}
\* The modes the parsed namespace selects.
ModesSelected ==
    (IF args[1].entry # None THEN {"get"} ELSE {})
    \cup (IF args[1].list THEN {"enumerate"} ELSE {})
    \cup (IF args[1].search THEN {"search"} ELSE {})
    \cup (IF args[1].fuzzy THEN {"fuzzy"} ELSE {})



(***************************************************************************)
(* C1: in enumerate mode a run on an opened database of n >= 0 entries     *)
(* prints exactly n lines, "<title>: <password>" for each entry in the     *)
(* order the database yields them, before the process exits.               *)
(***************************************************************************)
C1_EnumeratePrintsEveryEntry ==
    (Exited /\ Opened /\ args[1].list)
        => stdout = [i \in 1..Len(db) |-> EntryLine(db[i])]

(***************************************************************************)
(* C2: when opening the database raises EnpassDatabaseError, the error is  *)
(* logged and the run ends at once with exit code 1, in each of the four   *)
(* modes: nothing is printed, no prompt is issued, no entry is looked up.  *)
(***************************************************************************)
C2_OpenFailureExitsOne ==
    (open_result = "EnpassDatabaseError")
        => /\ ExitedWith(1)
           /\ logged = <<CouldNotRead>>
           /\ stdout = <<>>
           /\ prompts = 0
           /\ lookups = 0
           /\ entry_title = None
           /\ entry = None

C2_Witness ==
    /\ open_result = "EnpassDatabaseError"
    /\ Exited
    /\ args[1].fuzzy

(***************************************************************************)
(* C3: in direct get mode, for every title matching no entry of the opened *)
(* database, the run logs an error naming the title and ends with exit     *)
(* code 1 without printing a password.                                     *)
(***************************************************************************)
C3_GetUnknownTitleLogsAndExitsOne ==
    (Exited /\ Opened /\ cli.get # None /\ Holding(cli.get[1]) = {})
        => /\ ExitedWith(1)
           /\ logged = <<NotFound(cli.get[1])>>
           /\ stdout = <<>>

C5_InterruptExitsZero ==
    (prompt_result = "KeyboardInterrupt")
        => /\ ExitedWith(0)
           /\ args[1].search \/ args[1].fuzzy
           /\ lookups = 0
           /\ stdout = <<>>
           /\ logged = <<>>

C5_Witness ==
    /\ prompt_result = "KeyboardInterrupt"
    /\ Exited
    /\ args[1].search
    /\ Len(db) > 0

(***************************************************************************)
(* C6: when the --log-config file is not valid JSON the run ends with exit *)
(* code 1 during logging setup: the database is never opened, no prompt is *)
(* issued and no entry is printed, whatever the mode and the credentials.  *)
(***************************************************************************)
C6_InvalidLogConfigExitsOne ==
    (log_file = "invalid_json")
        => /\ ExitedWith(1)
           /\ open_result = "none"
           /\ opened_with = None
           /\ prompts = 0
           /\ lookups = 0
           /\ stdout = <<NotValidJson(args[1].logger_config)>>

C6_Witness ==
    /\ log_file = "invalid_json"
    /\ Exited
    /\ cli.logger_config = Some("log.json")
    /\ cli.flags = {"enumerate"}

(***************************************************************************)
(* C7: each of path, password and key file reaches the database open as    *)
(* the command-line value when the flag is given, otherwise as the value   *)
(* of its environment variable when that is set; the path and password     *)
(* flags are required exactly when their variable is unset or empty, and   *)
(* the key file falls back to the empty string.                            *)
(***************************************************************************)
C7_Value(given, variable, fallback) ==
    IF given # None THEN given
    ELSE IF env[variable] # None THEN env[variable]
    ELSE fallback

C7_Needed(given, variable) == given = None /\ env[variable] \in {None, Some("")}

C7_EnvironmentDefaults ==
    /\ ~Parsing =>
          \* A command line in order as to its mode is refused exactly when
          \* a needed path or password is absent.
          (Cardinality(ModesPresent) = 1 =>
              (args = None <=> \/ C7_Needed(cli.path, "ENPASS_DB_PATH")
                               \/ C7_Needed(cli.password, "ENPASS_DB_PASSWORD")))
    /\ opened_with # None =>
          opened_with[1] = <<C7_Value(cli.path, "ENPASS_DB_PATH", None),
                             C7_Value(cli.password, "ENPASS_DB_PASSWORD", None),
                             C7_Value(cli.key_file, "ENPASS_DB_KEY_FILE", Some(""))>>
    /\ opened_with # None =>
          /\ opened_with[1][1] # None
          /\ opened_with[1][2] # None

C7_Witness ==
    /\ opened_with # None
    /\ cli.path = None /\ env["ENPASS_DB_PATH"] = Some("env")
    /\ cli.password = Some("cli") /\ env["ENPASS_DB_PASSWORD"] = Some("env")
    /\ cli.key_file = None /\ env["ENPASS_DB_KEY_FILE"] = None
    /\ opened_with[1] = <<Some("env"), Some("cli"), Some("")>>

(***************************************************************************)
(* C8: a command line is accepted only with exactly one of the four mode   *)
(* options; with none or with two or more it is refused before logging is  *)
(* configured or the database opened, so a run that reaches the open has   *)
(* exactly one mode selected.                                              *)
(***************************************************************************)
C8_ExactlyOneMode ==
    /\ (~Parsing /\ Cardinality(ModesPresent) # 1)
          => /\ args = None
             /\ Exited
             /\ exit_code = Some(2)
             /\ log_file = "none"
             /\ open_result = "none"
             /\ opened_with = None
    /\ args # None
          => /\ Cardinality(ModesPresent) = 1
             /\ ModesSelected = ModesPresent

C8_Witness ==
    /\ Exited
    /\ cli.get = Some("a")
    /\ cli.flags = {"search"}
    /\ cli.path # None
    /\ cli.password # None
    /\ exit_code = Some(2)

(***************************************************************************)
(* C9: in the two interactive modes, after a successful open exactly one   *)
(* prompt is issued, and for every title t the user submits the run ends   *)
(* as direct get with title t does: only the password of the entry the     *)
(* database returns for t and exit 0, or the not-found error and exit 1.   *)
(***************************************************************************)
C9_SearchBehavesAsDirectGet ==
    (Exited /\ prompt_result = "submitted")
        => /\ prompts = 1
           /\ Observed = DirectGet(db, entry_title[1])

(***************************************************************************)
(* C10: a run that opens the database dispatches exactly one of the four   *)
(* output modes and ends with an explicit exit status of 0 or 1: the       *)
(* lookup is never reached without a title assigned by --get or by the     *)
(* prompt, and enumerate mode never falls through to the lookup.           *)
(***************************************************************************)
C10_OneModeDispatchedExplicitExit ==
    Opened
        => /\ pc = "lookup" => (entry_title # None /\ ~args[1].list)
           /\ Exited => (uncaught = "" /\ exit_code \in {Some(0), Some(1)})

=============================================================================
